---- MODULE Spec2Model ----
(***************************************************************************)
(* Batch construction and microbatch splitting of the in-context-learning  *)
(* evaluation datasets (llmfoundry/eval/datasets/                          *)
(* in_context_learning_evaluation.py).                                     *)
(*                                                                         *)
(* A batch is a Python dict: it is modelled as a record                    *)
(*   [keys |-> <<k1, ..., kn>>, val |-> [k |-> entry]]                     *)
(* whose keys are in insertion order and whose entries are                 *)
(*   [kind |-> "tensor" | "list" | "str" | "bool" | "none" | "dict",       *)
(*    elem |-> the type of the elements of a list,                         *)
(*    v    |-> the rows of a tensor, the items of a list, or the one       *)
(*             value of a static entry].                                   *)
(* A tensor row is <<q, c>>: the row of choice c of corpus question q.     *)
(***************************************************************************)
EXTENDS Integers, Sequences, FiniteSets, TLC

\* ---------------------------------------------------------------- bounds
MaxQ == 4
MaxChoices == 3
MaxMicrobatch == 3
MaxBatchSize == 12
MaxStart == 1
MaxCorpus == 4
MaxCalls == 2
MaxFewshot == 2
MaxSeed == 3
MaxWidth == 2
MaxCtx == 2
MaxCont == 2
MaxToken == 1
MaxTokChoices == 2
MaxSeqLenArg == 12
MaxPaddingArg == 2
MaxAnswer == 3
MaxRows == 3
MaxTokenId == 1
MaxPreamble == 5
MaxCountRows == 2
MaxCountWidth == 2

VARIABLES ds, pc, data, batch, arg, result, ebs, heap, touched, template, prep, few, tok, gen, part, val, ctx, pre, cnt

\* the variables of the machines other than the batch machine
otherVars == <<prep, few, tok, gen, part, val, ctx, pre, cnt>>

batchVars == <<ds, pc, data, batch, arg, result, ebs, heap, touched, template>>

vars == <<batchVars, otherVars>>

Min(a, b) == IF a < b THEN a ELSE b

Max(a, b) == IF a > b THEN a ELSE b

Entry(kind, elem, v) == [kind |-> kind, elem |-> elem, v |-> v]

\* A batch is a dict: keys in insertion order, their values, and obj, the
\* identity of the dict object and of the lists it holds
EmptyDict == [keys |-> <<>>, val |-> <<>>, obj |-> "batch"]

\* d[k] = e on a dict: a new key goes to the end of the insertion order
DictSet(d, k, e) ==
    [d EXCEPT !.keys = IF \E i \in 1..Len(d.keys) : d.keys[i] = k
                       THEN d.keys ELSE Append(d.keys, k),
              !.val = (k :> e) @@ d.val]

HasKey(d, k) == \E i \in 1..Len(d.keys) : d.keys[i] = k

Contains(s, x) == \E i \in 1..Len(s) : s[i] = x

\* ------------------------------------------------- dataset construction
IsMC(d) == d.variant \in {"mc", "schema"}

\* The configurations a constructed dataset can have.  tokenize_labels keeps
\* its default (True) in the lm, mc and schema variants (the multiple-choice
\* tokenize_example treats it as True for every dataset) and is fixed to
\* False by the generation variant; generation_kwargs is optional.
\* num_choices is len(self.dataset[0][self.choices_key]); every question of
\* a multiple-choice corpus has that many choices (class docstring).
Datasets ==
    {[variant |-> "lm", num_choices |-> 1, tokenize_labels |-> TRUE,
      generation_kwargs |-> FALSE]}
    \cup
    {[variant |-> "gen", num_choices |-> 1, tokenize_labels |-> FALSE,
      generation_kwargs |-> gk] : gk \in BOOLEAN}
    \cup
    {[variant |-> v, num_choices |-> n, tokenize_labels |-> TRUE,
      generation_kwargs |-> gk] :
        v \in {"mc", "schema"}, n \in 1..MaxChoices, gk \in BOOLEAN}

static_keys(d) ==
    CASE d.variant = "lm" -> <<"mode">>
      [] d.variant = "gen" -> <<"mode", "cot_delimiter", "generation_kwargs",
                                "do_normalization", "stopping_criteria">>
      [] d.variant = "mc" -> <<"mode", "generation_kwargs">>
      [] d.variant = "schema" -> <<"mode">>

tensor_keys(d) ==
    CASE d.variant = "lm" -> <<"input_ids", "continuation_indices", "labels",
                               "attention_mask">>
      [] d.variant = "gen" -> <<"input_ids", "attention_mask">>
      [] OTHER -> <<"input_ids", "labels", "attention_mask">>

list_keys(d) == IF d.variant = "gen" THEN <<"labels">> ELSE <<>>

list_of_tensors_keys(d) == <<"continuation_indices">>

list_of_tuples_keys(d) == <<"choice_groupings">>

list_of_primitives(d) == <<"gold_indices">>

EmptyList == Entry("list", "", <<>>)

\* A dict value is a reference to an object of the heap: the
\* generation_kwargs dict of self.base_batch, and the one of the batch that
\* collate_fn is building (a deep copy)
BaseKwargs == "base_batch.generation_kwargs"

BatchKwargs == "batch.generation_kwargs"

\* update_generation_kwargs on a base_batch
update_generation_kwargs(d, bb) ==
    IF d.generation_kwargs /\ ~HasKey(bb, "generation_kwargs")
    THEN DictSet(bb, "generation_kwargs", Entry("dict", "", <<BaseKwargs>>))
    ELSE bb

MCBaseBatch ==
    [keys |-> <<"input_ids", "continuation_indices", "mode", "labels",
                "gold_indices", "choice_groupings">>,
     val |-> [k \in {"input_ids", "continuation_indices", "mode", "labels",
                     "gold_indices", "choice_groupings"} |->
                IF k = "mode" THEN Entry("str", "", <<"icl_task">>)
                ELSE EmptyList],
     obj |-> "base_batch"]

LMBaseBatch ==
    [keys |-> <<"input_ids", "continuation_indices", "mode", "labels">>,
     val |-> [k \in {"input_ids", "continuation_indices", "mode", "labels"} |->
                IF k = "mode" THEN Entry("str", "", <<"icl_task">>)
                ELSE EmptyList],
     obj |-> "base_batch"]

GenBaseBatch ==
    [keys |-> <<"input_ids", "mode", "labels", "cot_delimiter",
                "stopping_criteria", "do_normalization", "generation_kwargs">>,
     val |-> [k \in {"input_ids", "mode", "labels", "cot_delimiter",
                     "stopping_criteria", "do_normalization",
                     "generation_kwargs"} |->
                CASE k = "mode" -> Entry("str", "", <<"generate">>)
                  [] k = "cot_delimiter" -> Entry("str", "", <<"cot_delimiter">>)
                  [] k = "stopping_criteria" -> Entry("none", "", <<"None">>)
                  [] k = "do_normalization" -> Entry("bool", "", <<"True">>)
                  [] k = "generation_kwargs" ->
                       Entry("dict", "", <<BaseKwargs>>)
                  [] OTHER -> EmptyList],
     obj |-> "base_batch"]

\* self.base_batch after __init__ of each variant
base_batch(d) ==
    CASE d.variant = "lm" -> update_generation_kwargs(d, LMBaseBatch)
      [] d.variant = "gen" -> update_generation_kwargs(d, GenBaseBatch)
      [] d.variant = "mc" -> update_generation_kwargs(d, MCBaseBatch)
      [] d.variant = "schema" -> MCBaseBatch

\* ------------------------------------------------------ tokenized records
\* The tokenized record of corpus question q: one padded row per choice for
\* the multiple-choice and schema variants, one row otherwise.
Gold(d, q) == q % d.num_choices

RecordRows(d, q) ==
    IF IsMC(d) THEN [c \in 1..d.num_choices |-> <<q, c - 1>>] ELSE <<<<q, 0>>>>

\* copy.deepcopy(self.base_batch): a new dict with new lists, and every dict
\* value is a new object
deepcopy_Shallow(bb) == bb

deepcopy(bb) ==
    [bb EXCEPT !.obj = "batch", !.val = [k \in DOMAIN bb.val |->
        IF bb.val[k].kind = "dict" THEN Entry("dict", "", <<BatchKwargs>>)
        ELSE bb.val[k]]]

\* the keys of base_batch['generation_kwargs'] after __init__
BaseKwargsKeys(d) ==
    (IF d.variant = "gen"
     THEN {"pad_token_id", "use_cache", "eos_token_id", "max_new_tokens"}
     ELSE {})
    \cup (IF d.generation_kwargs THEN {"user_kwargs"} ELSE {})

\* the keys of the batch's generation_kwargs after collate_fn: the
\* generation variant sets batch['generation_kwargs']['stopping_criteria']
CollatedKwargsKeys(d, base) ==
    IF d.variant = "gen" THEN base \cup {"stopping_criteria"} ELSE base

\* batch[k].append(x)
DictAppend(b, k, x) == [b EXCEPT !.val[k].v = Append(@, x)]

\* A record has a continuation_indices field only when the labels were
\* tokenized (tokenize_example)
RecordHasContinuationIndices(d) == d.tokenize_labels

\* convert_tokens_to_tensors: input_ids is stacked into a tensor; labels is
\* stacked and continuation_indices made a list of tensors only when
\* tokenize_labels is set
convert_tokens_to_tensors(b, tokenize_labels) ==
    LET b1 == [b EXCEPT !.val["input_ids"].kind = "tensor"]
    IN IF tokenize_labels
       THEN [b1 EXCEPT !.val["labels"].kind = "tensor",
                       !.val["continuation_indices"].elem = "tensor"]
       ELSE b1

\* batch['attention_mask'] = ~(batch['input_ids'] == self.pad_tok_id):
\* one mask row per input_ids row
AttentionMask(b) == Entry("tensor", "", b.val["input_ids"].v)

\* InContextLearningDataset.collate_fn, the loop over the records
RECURSIVE BaseCollateLoop(_, _, _, _)
BaseCollateLoop(d, recs, i, b) ==
    IF i > Len(recs) THEN b
    ELSE LET q == recs[i]
             row == RecordRows(d, q)[1]
             b1 == DictAppend(DictAppend(b, "input_ids", row), "labels", row)
             b2 == IF RecordHasContinuationIndices(d)
                   THEN DictAppend(b1, "continuation_indices", row)
                   ELSE b1
         IN BaseCollateLoop(d, recs, i + 1, b2)

BaseCollate(d, recs) ==
    LET b == BaseCollateLoop(d, recs, 1, deepcopy(template))
        t == convert_tokens_to_tensors(b, d.tokenize_labels)
    IN DictSet(t, "attention_mask", AttentionMask(t))

\* InContextLearningGenerationTaskWithAnswersDataset.collate_fn: the base
\* collation, then generation_kwargs['stopping_criteria'] is set inside the
\* batch's own generation_kwargs dict
GenCollate(d, recs) == BaseCollate(d, recs)

\* (choice_start_idx, choice_end_idx) of one question
ChoiceGrouping_Off(start, end) == <<start, end - 1>>

ChoiceGrouping(start, end) == <<start, end>>

\* the inner loop of the multiple-choice collate_fn: one row per choice
RECURSIVE MCAppendChoices(_, _, _)
MCAppendChoices(rows, i, b) ==
    IF i > Len(rows) THEN b
    ELSE MCAppendChoices(rows, i + 1,
            DictAppend(DictAppend(DictAppend(b, "input_ids", rows[i]),
                                  "continuation_indices", rows[i]),
                       "labels", rows[i]))

\* the outer loop of the multiple-choice collate_fn: one question at a time
RECURSIVE MCCollateLoop(_, _, _, _)
MCCollateLoop(d, recs, i, b) ==
    IF i > Len(recs) THEN b
    ELSE LET q == recs[i]
             choice_start_idx == Len(b.val["continuation_indices"].v)
             b1 == MCAppendChoices(RecordRows(d, q), 1, b)
             b2 == DictAppend(b1, "gold_indices", Gold(d, q))
             choice_end_idx == Len(b2.val["continuation_indices"].v)
             b3 == DictAppend(b2, "choice_groupings",
                              ChoiceGrouping(choice_start_idx, choice_end_idx))
         IN MCCollateLoop(d, recs, i + 1, b3)

MCCollate(d, recs) ==
    LET b == MCCollateLoop(d, recs, 1, deepcopy(template))
        b0 == [b EXCEPT !.val["gold_indices"].elem = "int",
                        !.val["choice_groupings"].elem = "tuple"]
        t == convert_tokens_to_tensors(b0, d.tokenize_labels)
    IN DictSet(t, "attention_mask", AttentionMask(t))

collate_fn(d, recs) ==
    CASE d.variant = "lm" -> BaseCollate(d, recs)
      [] d.variant = "gen" -> GenCollate(d, recs)
      [] OTHER -> MCCollate(d, recs)

\* ------------------------------------------- composer.core.data_spec
ComposerFloatMsg ==
    "_default_split_batch does not support floating point microbatch_size"

SplitBatchFloatMsg ==
    "split_batch does not support floating point microbatch_size"

\* Results of a split: [err, msg, key, chunks]; err = "" when it succeeded.
Ok(chunks) == [err |-> "", msg |-> "", key |-> "", chunks |-> chunks]

Raise(err, msg, key) == [err |-> err, msg |-> msg, key |-> key, chunks |-> <<>>]

\* [l[start:start + n] for start in range(0, len(l), n)], n >= 1
Chunks(l, n) ==
    [i \in 1..((Len(l) + n - 1) \div n) |->
        SubSeq(l, (i - 1) * n + 1, Min(i * n, Len(l)))]

\* _split_list: a list shorter than the microbatch is not split; the range
\* step is then len(l), and a step of 0 is a ValueError
_split_list(e, n) ==
    LET size == IF Len(e.v) < n THEN Len(e.v) ELSE n
    IN IF size = 0
       THEN Raise("ValueError", "range() arg 3 must not be zero", "")
       ELSE Ok([i \in DOMAIN Chunks(e.v, size) |->
                  Entry(e.kind, e.elem, Chunks(e.v, size)[i])])

\* _split_tensor: t.split(n), after the same shortening
_split_tensor(e, n) ==
    LET size == IF Len(e.v) < n THEN Len(e.v) ELSE n
    IN IF size = 0
       THEN Ok(<<e>>)
       ELSE Ok([i \in DOMAIN Chunks(e.v, size) |->
                  Entry(e.kind, e.elem, Chunks(e.v, size)[i])])

IsPrimitive(e) == e.kind \in {"str", "bool", "int", "float"}

\* _default_split_batch applied to one value (a tensor or a list of
\* primitives); m is the microbatch_size [float, n]
_default_split_value(e, m) ==
    IF m.float
    THEN Raise("ValueError", ComposerFloatMsg, "")
    ELSE CASE e.kind = "tensor" -> _split_tensor(e, m.n)
           [] e.kind = "list" /\ (Len(e.v) = 0 \/ e.elem \in {"int", "str"}) ->
                _split_list(e, m.n)
           [] OTHER -> Raise("NotImplementedError", "unsupported batch type", "")

\* chunked[k][idx] for every key of chunked; a chunk list shorter than
\* num_chunks is an IndexError
MicrobatchAt_First(chunked, idx) ==
    [k \in DOMAIN chunked |-> chunked[k][1]]

MicrobatchAt(chunked, idx) ==
    [k \in DOMAIN chunked |-> chunked[k][idx]]

\* [v] * num_chunks
Broadcast_FirstOnly(e, num_chunks) ==
    [i \in 1..num_chunks |-> IF i = 1 THEN e ELSE Entry("none", "", <<"None">>)]

Broadcast(e, num_chunks) == [i \in 1..num_chunks |-> e]

\* [{k: v[idx] for k, v in chunked.items()} for idx in range(num_chunks)]
Assemble(chunked, num_chunks) ==
    IF \E k \in DOMAIN chunked : Len(chunked[k]) < num_chunks
    THEN Raise("IndexError", "list index out of range", "")
    ELSE Ok([idx \in 1..num_chunks |-> MicrobatchAt(chunked, idx)])

\* _split_mapping: the first loop, over the items of the batch
RECURSIVE _split_mapping_keys(_, _, _)
_split_mapping_keys(b, n, i) ==
    IF i > Len(b.keys) THEN Ok(<<>>)
    ELSE LET k == b.keys[i]
             e == b.val[k]
             r == CASE e.kind = "tensor" -> _split_tensor(e, n)
                    [] e.kind = "list" -> _split_list(e, n)
                    [] IsPrimitive(e) -> Ok(<<>>)
                    [] OTHER -> Raise("ValueError", "Unsupported batch type", k)
         IN IF r.err # "" THEN r
            ELSE LET rest == _split_mapping_keys(b, n, i + 1)
                 IN IF rest.err # "" THEN rest
                    ELSE IF IsPrimitive(e) THEN rest
                    ELSE Ok((k :> r.chunks) @@ rest.chunks)

\* the first key of the batch, in insertion order, that was chunked
RECURSIVE FirstChunkedKey(_, _)
FirstChunkedKey(b, i) ==
    IF i > Len(b.keys) THEN ""
    ELSE IF ~IsPrimitive(b.val[b.keys[i]]) THEN b.keys[i]
    ELSE FirstChunkedKey(b, i + 1)

\* _split_mapping: primitives are broadcast to len(first chunked value)
\* chunks
_split_mapping(b, n) ==
    LET r == _split_mapping_keys(b, n, 1)
    IN IF r.err # "" THEN r
       ELSE LET num_chunks == IF DOMAIN r.chunks = {} THEN 1
                              ELSE Len(r.chunks[FirstChunkedKey(b, 1)])
                prim == {b.keys[i] : i \in {j \in 1..Len(b.keys) :
                                             IsPrimitive(b.val[b.keys[j]])}}
                all == [k \in (DOMAIN r.chunks) \cup prim |->
                          IF k \in prim THEN Broadcast(b.val[k], num_chunks)
                          ELSE r.chunks[k]]
            IN Assemble(all, num_chunks)

\* _default_split_batch applied to a whole batch dict
_default_split_batch(b, m) ==
    IF m.float
    THEN Raise("ValueError", ComposerFloatMsg, "")
    ELSE _split_mapping(b, m.n)

\* ------------------------------------------------------------ split_batch
\* isinstance(microbatch_size, float)
IsFloat_Never(m) == FALSE

IsFloat(m) == m.float

IntSize(n) == [float |-> FALSE, n |-> n]

\* microbatch_size * self.num_choices, the chunk of the list-of-tensors keys
ListChunkSize_Logical(d, m) == m.n

ListChunkSize(d, m) == m.n * d.num_choices

\* microbatch_size * self.num_choices, the chunk of the tensor keys
TensorChunkSize(d, m) == [float |-> m.float, n |-> m.n * d.num_choices]

\* microbatch_size, the chunk of the per-question keys
LogicalChunkSize_One(d, m) == IntSize(1)

LogicalChunkSize(d, m) == m

Skip == [err |-> "", msg |-> "skip", key |-> "", chunks |-> <<>>]

\* the body of the first loop of the multiple-choice split_batch, for the
\* item (k, e) of the batch
MCSplitKey_Lenient(d, k, e, m) ==
    IF Contains(static_keys(d), k) THEN Skip
    ELSE IF e.kind = "list"
    THEN IF Contains(list_of_tensors_keys(d), k)
         THEN _split_list(e, ListChunkSize(d, m))
         ELSE IF Contains(list_of_tuples_keys(d), k)
         THEN _split_list(e, LogicalChunkSize(d, m).n)
         ELSE IF Contains(list_of_primitives(d), k)
         THEN _default_split_value(e, LogicalChunkSize(d, m))
         ELSE Skip
    ELSE IF Contains(tensor_keys(d), k)
    THEN _default_split_value(e, TensorChunkSize(d, m))
    ELSE Skip

MCSplitKey(d, k, e, m) ==
    IF Contains(static_keys(d), k) THEN Skip
    ELSE IF e.kind = "list"
    THEN IF Contains(list_of_tensors_keys(d), k)
         THEN _split_list(e, ListChunkSize(d, m))
         ELSE IF Contains(list_of_tuples_keys(d), k)
         THEN _split_list(e, LogicalChunkSize(d, m).n)
         ELSE IF Contains(list_of_primitives(d), k)
         THEN _default_split_value(e, LogicalChunkSize(d, m))
         ELSE Raise("ValueError", "Unexpected key in list splitting", k)
    ELSE IF Contains(tensor_keys(d), k)
    THEN _default_split_value(e, TensorChunkSize(d, m))
    ELSE Raise("ValueError", "Unexpected key in batch splitting", k)

\* the body of the first loop of the generation split_batch
GenSplitKey(d, k, e, m) ==
    IF Contains(static_keys(d), k) THEN Skip
    ELSE IF Contains(list_keys(d), k) THEN _split_list(e, m.n)
    ELSE IF Contains(tensor_keys(d), k) THEN _default_split_value(e, m)
    ELSE Raise("ValueError", "Unexpected key in batch splitting", k)

SplitKey(d, k, e, m) ==
    IF d.variant = "gen" THEN GenSplitKey(d, k, e, m)
    ELSE MCSplitKey(d, k, e, m)

\* for k, v in batch.items(): chunked[k] = ...; stops at the first error
RECURSIVE ChunkKeys(_, _, _, _)
ChunkKeys(d, b, m, i) ==
    IF i > Len(b.keys) THEN Ok(<<>>)
    ELSE LET k == b.keys[i]
             r == SplitKey(d, k, b.val[k], m)
         IN IF r.err # "" THEN r
            ELSE LET rest == ChunkKeys(d, b, m, i + 1)
                 IN IF rest.err # "" THEN rest
                    ELSE IF r.msg = "skip" THEN rest
                    ELSE Ok((k :> r.chunks) @@ rest.chunks)

\* num_chunks = len(chunked['input_ids'])
NumChunks(chunked) == Len(chunked["input_ids"])

\* the second loop: chunked[k] = [v] * num_chunks for the static keys
BroadcastStatic(d, b, chunked, num_chunks) ==
    LET st == {b.keys[i] : i \in {j \in 1..Len(b.keys) :
                                    Contains(static_keys(d), b.keys[j])}}
    IN [k \in (DOMAIN chunked) \cup st |->
          IF k \in st THEN Broadcast(b.val[k], num_chunks) ELSE chunked[k]]

\* split_batch of the multiple-choice, schema and generation variants
KeyedSplitBatch(d, b, m) ==
    IF IsFloat(m)
    THEN Raise("ValueError", SplitBatchFloatMsg, "")
    ELSE LET r == ChunkKeys(d, b, m, 1)
         IN IF r.err # "" THEN r
            ELSE IF "input_ids" \notin DOMAIN r.chunks
            THEN Raise("KeyError", "input_ids", "input_ids")
            ELSE LET num_chunks == NumChunks(r.chunks)
                 IN Assemble(BroadcastStatic(d, b, r.chunks, num_chunks),
                             num_chunks)

\* split_batch, by variant: the base class delegates to composer
split_batch(d, b, m) ==
    IF d.variant = "lm" THEN _default_split_batch(b, m)
    ELSE KeyedSplitBatch(d, b, m)

\* get_num_samples_in_batch
Rows(b) == Len(b["input_ids"].v)

get_num_samples_in_batch_Rows(d, b) == Rows(b)

get_num_samples_in_batch(d, b) ==
    IF IsMC(d) THEN Rows(b) \div d.num_choices ELSE Rows(b)

\* get_effective_batch_size
get_effective_batch_size_NoMax(d, n) ==
    IF IsMC(d) THEN n \div d.num_choices ELSE n

get_effective_batch_size(d, n) ==
    IF IsMC(d) THEN Max(d.num_choices, n) \div d.num_choices ELSE n

\* ------------------------------------------------------------ the machine
\* A key added to the batch after collation, of a type the caller chose
ExtraKinds == {"none", "list", "tensor", "str"}

WithExtra(b, extra) ==
    CASE extra = "none" -> b
      [] extra = "str" -> DictSet(b, "extra", Entry("str", "", <<"x">>))
      [] extra = "list" ->
           DictSet(b, "extra", Entry("list", "int", b.val["input_ids"].v))
      [] extra = "tensor" ->
           DictSet(b, "extra", Entry("tensor", "", b.val["input_ids"].v))

MicrobatchSizes ==
    {[float |-> f, n |-> n] : f \in BOOLEAN, n \in 1..MaxMicrobatch}

NoArg == [m |-> IntSize(1), extra |-> "none"]

NoEbs == [n |-> 0, out |-> 0, again |-> 0]

\* the heap after construction: only base_batch's generation_kwargs exists
InitHeap(d) ==
    [o \in {BaseKwargs, BatchKwargs} |->
        IF o = BaseKwargs THEN BaseKwargsKeys(d) ELSE {}]

\* the state of the batch machine after construction
InitBatch ==
    /\ ds \in Datasets
    /\ pc = "constructed"
    /\ data = <<>>
    /\ batch = EmptyDict
    /\ arg = NoArg
    /\ result = Ok(<<>>)
    /\ ebs = NoEbs
    /\ heap = InitHeap(ds)
    /\ touched = 0
    /\ template = base_batch(ds)

\* ------------------------------------------------- lazy preparation
\* self._prepared = False at the end of __init__; the dataset holds the
\* corpus rows as read (pass 0 of _prep_example)
NewDataset(n) ==
    [corpus |-> n, len |-> n, prepared |-> FALSE, runs |-> 0, pass |-> 0,
     gets |-> 0, lens |-> 0, returned |-> <<>>]

\* _prepare_dataset: self.dataset = self.dataset.map(self._prep_example);
\* self._prepared = True
_prepare_dataset(p) ==
    [p EXCEPT !.runs = @ + 1, !.pass = @ + 1, !.prepared = TRUE]

\* if not self._prepared: self._prepare_dataset()
PrepareIfNeeded_Always(p) == _prepare_dataset(p)

PrepareIfNeeded(p) == IF ~p.prepared THEN _prepare_dataset(p) ELSE p

\* __getitem__(index): returns self.dataset[index], the record of row index
\* as left by the last map pass
GetItem(index) ==
    /\ prep.gets < MaxCalls
    /\ index \in 0..(prep.len - 1)
    /\ LET p == PrepareIfNeeded(prep)
       IN prep' = [p EXCEPT !.gets = @ + 1,
                            !.returned = <<"item", index, p.pass>>]
    /\ UNCHANGED <<batchVars, few, tok, gen, part, val, ctx, pre, cnt>>

\* __len__: len(self.dataset)
LenCall ==
    /\ prep.lens < MaxCalls
    /\ prep' = [prep EXCEPT !.lens = @ + 1, !.returned = <<"len", prep.len>>]
    /\ UNCHANGED <<batchVars, few, tok, gen, part, val, ctx, pre, cnt>>

\* ------------------------------------------------- tokenize, trim, pad
\* token ids; the pad token is one of them
Tokens == 0..MaxToken

PadTokId == 0

RECURSIVE SeqsUpTo(_, _)
SeqsUpTo(S, n) ==
    IF n = 0 THEN {<<>>}
    ELSE LET shorter == SeqsUpTo(S, n - 1)
         IN shorter \cup {Append(sq, x) : sq \in shorter, x \in S}

\* tokenizer output for a context string, and for an answer string
Contexts == SeqsUpTo(Tokens, MaxCtx)

Continuations == SeqsUpTo(Tokens, MaxCont)

\* padding_side: 'left' for the generation variant, 'right' for the others
padding_side(d) == IF d.variant = "gen" THEN "left" ELSE "right"

\* the attributes of a dataset that tokenize_example reads; the generation
\* variant has reserved one token of max_seq_len for the answer
TokCfg(d, w) ==
    [padding_size |-> w,
     max_seq_len |-> IF d.variant = "gen" THEN w + 1 ELSE w,
     pad_tok_id |-> PadTokId,
     padding_side |-> padding_side(d),
     tokenize_labels |-> d.tokenize_labels]

Suffix(sq, n) == SubSeq(sq, Len(sq) - n + 1, Len(sq))

Prefix(sq, n) == SubSeq(sq, 1, n)

\* trim_context(context_enc, continuation_enc, max_seq_len): tokens are
\* dropped from the front of the context until context + continuation fit;
\* an error if the continuation alone does not fit
trim_context_Prefix(context_enc, continuation_enc, width) ==
    IF Len(continuation_enc) > width
    THEN [err |-> TRUE, ctx |-> <<>>]
    ELSE [err |-> FALSE,
          ctx |-> Prefix(context_enc,
                         Min(Len(context_enc), width - Len(continuation_enc)))]

trim_context(context_enc, continuation_enc, width) ==
    IF Len(context_enc) + Len(continuation_enc) <= width
    THEN [err |-> FALSE, ctx |-> context_enc]
    ELSE IF Len(continuation_enc) > width
    THEN [err |-> TRUE, ctx |-> <<>>]
    ELSE [err |-> FALSE,
          ctx |-> Suffix(context_enc, width - Len(continuation_enc))]

\* get_continuation_span(context_enc, continuation_enc): the half-open
\* range <<start, end>> of the continuation once it follows the context
get_continuation_span(context_enc, continuation_enc) ==
    <<Len(context_enc), Len(context_enc) + Len(continuation_enc)>>

Pad(n, pad_tok_id) == [i \in 1..n |-> pad_tok_id]

\* make_padded_input(context_enc, continuation_enc, max_seq_len,
\* pad_tok_id, padding_side): context + continuation padded to the width
make_padded_input(context_enc, continuation_enc, width, pad_tok_id, side) ==
    LET inp == context_enc \o continuation_enc
        padding == Pad(width - Len(inp), pad_tok_id)
    IN IF side = "left" THEN padding \o inp ELSE inp \o padding

\* the width tokenize_example hands to trim_context and make_padded_input
PadWidth_MaxSeqLen(cfg) == cfg.max_seq_len

PadWidth(cfg) == cfg.padding_size

\* the context get_continuation_span is given: the trimmed one
SpanContext_Untrimmed(context, trimmed_context) == context

SpanContext(context, trimmed_context) == trimmed_context

\* trim, span and pad of one (context, continuation) pair: the body of the
\* tokenized-labels branch and of the per-choice loops
TokenizeRow(cfg, context, continuation) ==
    LET t == trim_context(context, continuation, PadWidth(cfg))
    IN IF t.err
       THEN [err |-> TRUE]
       ELSE [err |-> FALSE, context |-> context, answer |-> continuation,
             trimmed |-> t.ctx, labels |-> TRUE,
             continuation_indices |->
                 get_continuation_span(SpanContext(context, t.ctx),
                                       continuation),
             input |-> make_padded_input(t.ctx, continuation, PadWidth(cfg),
                                         cfg.pad_tok_id, cfg.padding_side)]

\* the branch of tokenize_example for untokenized labels: the continuation
\* handed to trim_context and make_padded_input is []
TokenizeRowNoLabels(cfg, context) ==
    [TokenizeRow(cfg, context, <<>>) EXCEPT !.labels = FALSE]

\* A tokenized record: the rows it holds, or the error that ended
\* tokenize_example before a record was made
Record(rows) ==
    IF \E i \in 1..Len(rows) : rows[i].err
    THEN [err |-> TRUE, rows |-> <<>>]
    ELSE [err |-> FALSE, rows |-> rows]

\* InContextLearningDataset.tokenize_example
BaseTokenizeExample(cfg, context, answer) ==
    IF cfg.tokenize_labels
    THEN Record(<<TokenizeRow(cfg, context, answer)>>)
    ELSE Record(<<TokenizeRowNoLabels(cfg, context)>>)

\* InContextLearningMultipleChoiceTaskDataset.tokenize_example: one row per
\* choice, all with the same context
MCTokenizeExample(cfg, context, choices) ==
    Record([i \in 1..Len(choices) |-> TokenizeRow(cfg, context, choices[i])])

\* InContextLearningSchemaTaskDataset.tokenize_example: one row per context
\* option, all with the same continuation
SchemaTokenizeExample(cfg, context_options, continuation) ==
    Record([i \in 1..Len(context_options) |->
               TokenizeRow(cfg, context_options[i], continuation)])

tokenize_example(d, cfg, contexts, answers) ==
    CASE d.variant = "mc" -> MCTokenizeExample(cfg, contexts[1], answers)
      [] d.variant = "schema" ->
             SchemaTokenizeExample(cfg, contexts, answers[1])
      [] OTHER -> BaseTokenizeExample(cfg, contexts[1], answers[1])

\* batch['attention_mask'] = ~(batch['input_ids'] == self.pad_tok_id),
\* element by element
attention_mask_NoNegation(input_ids, pad_tok_id) ==
    [r \in 1..Len(input_ids) |->
        [c \in 1..Len(input_ids[r]) |-> input_ids[r][c] = pad_tok_id]]

attention_mask(input_ids, pad_tok_id) ==
    [r \in 1..Len(input_ids) |->
        [c \in 1..Len(input_ids[r]) |-> ~(input_ids[r][c] = pad_tok_id)]]

\* collate_fn on the rows of one record: input_ids stacked row by row, then
\* the mask
TokenBatch(cfg, rec) ==
    LET input_ids == [r \in 1..Len(rec.rows) |-> rec.rows[r].input]
    IN [input_ids |-> input_ids,
        attention_mask |-> attention_mask(input_ids, cfg.pad_tok_id)]

NoRecord == [err |-> FALSE, rows |-> <<>>]

NoTokenBatch == [input_ids |-> <<>>, attention_mask |-> <<>>]

NoExample == [contexts |-> <<>>, answers |-> <<>>]

NewTok(d, w) ==
    [cfg |-> TokCfg(d, w), pc |-> "new", example |-> NoExample,
     rec |-> NoRecord,
     batch |-> NoTokenBatch]

\* the number of contexts and of answers an example of the variant has
NumContexts(d) == IF d.variant = "schema" THEN d.num_choices ELSE 1

NumAnswers(d) == IF d.variant = "mc" THEN d.num_choices ELSE 1

\* _prep_example -> tokenize_example on one example
TokenizeExample(contexts, answers) ==
    /\ tok.pc = "new"
    /\ Len(contexts) = NumContexts(ds)
    /\ Len(answers) = NumAnswers(ds)
    /\ LET rec == tokenize_example(ds, tok.cfg, contexts, answers)
       IN tok' = [tok EXCEPT !.example = [contexts |-> contexts,
                                          answers |-> answers],
                             !.rec = rec,
                             !.pc = IF rec.err THEN "error" ELSE "record"]
    /\ UNCHANGED <<batchVars, prep, few, gen, part, val, ctx, pre, cnt>>

\* collate_fn on the record
CollateTokens ==
    /\ tok.pc = "record"
    /\ tok' = [tok EXCEPT !.batch = TokenBatch(tok.cfg, tok.rec),
                          !.pc = "batch"]
    /\ UNCHANGED <<batchVars, prep, few, gen, part, val, ctx, pre, cnt>>

\* ------------------------------------- generation dataset construction
_MAX_ANSWER_BUFFER_LENGTH == 10

\* the padding_size argument when none is passed
None == 0

\* _get_max_answer_length: the longest tokenized response of the corpus,
\* plus the buffer when a chain-of-thought delimiter is configured
_get_max_answer_length(longest, cot_delimiter) ==
    longest + (IF cot_delimiter THEN _MAX_ANSWER_BUFFER_LENGTH ELSE 0)

\* self.padding_size = self.max_seq_len - self.max_answer_length
DerivedPaddingSize_Kept(padding_size, max_seq_len, max_answer_length) ==
    padding_size

DerivedPaddingSize(padding_size, max_seq_len, max_answer_length) ==
    max_seq_len - max_answer_length

\* InContextLearningDataset.__init__ up to the call of read_dataset:
\* self.max_seq_len, self.padding_size
BaseInitWidths(max_seq_len, padding_size) ==
    [max_seq_len |-> max_seq_len,
     padding_size |-> IF padding_size # None THEN padding_size
                      ELSE max_seq_len]

\* InContextLearningGenerationTaskWithAnswersDataset.read_dataset, the part
\* after the corpus is loaded
GenReadDataset(w, longest, cot_delimiter) ==
    LET max_answer_length == _get_max_answer_length(longest, cot_delimiter)
        max_seq_len == IF w.max_seq_len < max_answer_length
                       THEN max_answer_length ELSE w.max_seq_len
    IN [max_seq_len |-> max_seq_len,
        max_answer_length |-> max_answer_length,
        padding_size |-> DerivedPaddingSize(w.padding_size, max_seq_len,
                                            max_answer_length)]

NotConstructed ==
    [pc |-> "new", args |-> <<>>, max_seq_len |-> 0, max_answer_length |-> 0,
     padding_size |-> 0]

\* InContextLearningGenerationTaskWithAnswersDataset.__init__
ConstructGeneration(max_seq_len, padding_size, longest, cot_delimiter) ==
    /\ gen.pc = "new"
    /\ ds.variant = "gen"
    /\ LET r == GenReadDataset(BaseInitWidths(max_seq_len, padding_size),
                               longest, cot_delimiter)
       IN gen' = [pc |-> "constructed",
                  args |-> [max_seq_len |-> max_seq_len,
                            padding_size |-> padding_size,
                            longest |-> longest,
                            cot_delimiter |-> cot_delimiter],
                  max_seq_len |-> r.max_seq_len,
                  max_answer_length |-> r.max_answer_length,
                  padding_size |-> r.padding_size]
    /\ UNCHANGED <<batchVars, prep, few, tok, part, val, ctx, pre, cnt>>

\* ------------------------------------------- partitioning by category
\* the processes of one node; local rank 0 is the one that downloads and
\* writes
NumRanks == 2

Ranks == 0..(NumRanks - 1)

\* category values, in sorted order
CategoryOrder == <<"A", "B">>

NoCategory == "-"

\* A corpus: the fields of its rows and, row by row, the category value
Corpora ==
    {[features |-> {"context", "answer", "category"}, cats |-> cats] :
        cats \in SeqsUpTo({CategoryOrder[i] : i \in 1..Len(CategoryOrder)},
                          MaxRows)}
    \cup
    {[features |-> {"context", "answer"},
      cats |-> [i \in 1..n |-> NoCategory]] : n \in 1..MaxRows}

\* destination_path.split('/'): an absolute path, a relative one, and a
\* bare file name
DestinationPaths ==
    {<<"", "tmp", "d.jsonl">>, <<"data", "d.jsonl">>, <<"d.jsonl">>}

Cwd == <<"", "cwd">>

\* '/'.join(path[:-1]) + f'/{cat}_{path[-1]}'
cat_dest(path, cat) ==
    (IF Len(path) = 1 THEN <<"">> ELSE SubSeq(path, 1, Len(path) - 1))
        \o <<cat \o "_" \o path[Len(path)]>>

\* os.path.abspath
abspath(path) == IF path[1] = "" THEN path ELSE Cwd \o path

\* 'category' not in dataset.features.keys()
MissingCategory_Never(corpus) == FALSE

MissingCategory(corpus) == "category" \notin corpus.features

\* sorted(set(dataset['category']))
SortedCategories(corpus) ==
    SelectSeq(CategoryOrder,
              LAMBDA c : \E i \in 1..Len(corpus.cats) : corpus.cats[i] = c)

\* dataset['category'] of a corpus without the column has no sorted set;
\* the rows then all carry the placeholder
Categories(corpus) ==
    IF "category" \in corpus.features THEN SortedCategories(corpus)
    ELSE IF Len(corpus.cats) > 0 THEN <<NoCategory>> ELSE <<>>

\* [l for l in dataset if l['category'] == cat], as row numbers
Subset_All(corpus, cat) == [i \in 1..Len(corpus.cats) |-> i]

Subset(corpus, cat) ==
    SelectSeq([i \in 1..Len(corpus.cats) |-> i],
              LAMBDA i : corpus.cats[i] = cat)

NoPath == <<>>

NewRank ==
    [pc |-> "start", categories |-> <<>>, idx |-> 1, gathered_paths |-> <<>>,
     output_files |-> {}, err |-> {}]

NewPartition(corpus, hf, dest) ==
    [fn |-> "partition_dataset_by_category",
     corpus |-> corpus, hf |-> hf, dest |-> dest, get_file |-> {},
     downloaded |-> FALSE, loading |-> {},
     rank |-> [r \in Ranks |-> NewRank],
     gather |-> [round \in 1..Len(CategoryOrder) |->
                    [r \in Ranks |-> NoPath]],
     files |-> {}, opened |-> {}]

\* load_dataset(dataset_uri, **hf_loading_vars) for an hf:// uri
LoadHF(r) ==
    /\ part.hf
    /\ part.rank[r].pc = "start"
    /\ part' = [part EXCEPT !.rank[r].pc = "loaded"]
    /\ UNCHANGED <<batchVars, prep, few, tok, gen, val, ctx, pre, cnt>>

\* if dist.get_local_rank() == 0
IsLocalRankZero_Any(r) == TRUE

IsLocalRankZero(r) == r = 0

\* with dist.local_rank_zero_download_and_wait(destination_path): local
\* rank 0 calls get_file(dataset_uri, destination_path, overwrite=True)
GetFile(r) ==
    /\ ~part.hf
    /\ part.rank[r].pc = "start"
    /\ IsLocalRankZero(r)
    /\ part' = [part EXCEPT !.get_file = @ \cup {r},
                           !.rank[r].pc = "downloading"]
    /\ UNCHANGED <<batchVars, prep, few, tok, gen, val, ctx, pre, cnt>>

\* get_file returns: the destination file is complete, and the rank leaves
\* the with block
GetFileDone(r) ==
    /\ part.rank[r].pc = "downloading"
    /\ part' = [part EXCEPT !.downloaded = TRUE,
                           !.rank[r].pc = "downloaded"]
    /\ UNCHANGED <<batchVars, prep, few, tok, gen, val, ctx, pre, cnt>>

\* local_rank_zero_download_and_wait lets the other ranks of the node go on
\* once local rank 0 has left its body
DownloadCompleted == part.rank[0].pc \notin {"start", "downloading"}

\* the body of the with block is empty for the other ranks; they leave the
\* block when the wait is over
WaitDownload(r) ==
    /\ ~part.hf
    /\ part.rank[r].pc = "start"
    /\ ~IsLocalRankZero(r)
    /\ DownloadCompleted
    /\ part' = [part EXCEPT !.rank[r].pc = "downloaded"]
    /\ UNCHANGED <<batchVars, prep, few, tok, gen, val, ctx, pre, cnt>>

\* load_dataset('json', data_files=destination_path, ...)
LoadJson(r) ==
    /\ part.rank[r].pc = "downloaded"
    /\ part' = [part EXCEPT !.loading = @ \cup {r},
                           !.rank[r].pc = "loaded"]
    /\ UNCHANGED <<batchVars, prep, few, tok, gen, val, ctx, pre, cnt>>

\* the category check, then categories = sorted(set(...)) and
\* output_files = {}
CheckCategory(r) ==
    /\ part.fn = "partition_dataset_by_category"
    /\ part.rank[r].pc = "loaded"
    /\ IF MissingCategory(part.corpus)
       THEN part' = [part EXCEPT !.rank[r].pc = "error",
                                 !.rank[r].err = part.corpus.features]
       ELSE LET categories == Categories(part.corpus)
            IN part' = [part EXCEPT
                   !.rank[r].categories = categories,
                   !.rank[r].pc = IF Len(categories) = 0 THEN "done"
                                  ELSE "loop"]
    /\ UNCHANGED <<batchVars, prep, few, tok, gen, val, ctx, pre, cnt>>

\* InContextLearningDataset.read_dataset: return dataset
ReadReturn(r) ==
    /\ part.fn = "read_dataset"
    /\ part.rank[r].pc = "loaded"
    /\ part' = [part EXCEPT !.rank[r].pc = "done"]
    /\ UNCHANGED <<batchVars, prep, few, tok, gen, val, ctx, pre, cnt>>

\* read_dataset called on every rank
NewRead(corpus, hf, dest) ==
    [NewPartition(corpus, hf, dest) EXCEPT !.fn = "read_dataset"]

\* dist.all_gather_object(tmp_path_to_broadcast): the rank contributes its
\* path to the collective of this loop iteration
AllGatherEnter(r) ==
    /\ part.rank[r].pc = "loop"
    /\ LET rk == part.rank[r]
           cat == rk.categories[rk.idx]
           tmp_path_to_broadcast == abspath(cat_dest(part.dest, cat))
       IN part' = [part EXCEPT !.gather[rk.idx][r] = tmp_path_to_broadcast,
                               !.rank[r].pc = "gather"]
    /\ UNCHANGED <<batchVars, prep, few, tok, gen, val, ctx, pre, cnt>>

\* open(path, 'w') and the writes: the file holds these rows afterwards
WriteFile(files, path, rows) ==
    {f \in files : f.path # path} \cup {[path |-> path, rows |-> rows]}

\* output_files[cat] = cat_dest: the path the mapping records
RecordedPath_Destination(dest, cat) == dest

RecordedPath(dest, cat) == cat_dest(dest, cat)

\* the collective returns once every rank has contributed; local rank 0
\* then writes the subset to gathered_paths[0]; every rank records
\* output_files[cat] = cat_dest and goes to the next category
AllGatherLeave(r) ==
    /\ part.rank[r].pc = "gather"
    /\ \A q \in Ranks : part.gather[part.rank[r].idx][q] # NoPath
    /\ LET rk == part.rank[r]
           cat == rk.categories[rk.idx]
           gathered_paths == [q \in 1..NumRanks |-> part.gather[rk.idx][q - 1]]
           files == IF IsLocalRankZero(r)
                    THEN WriteFile(part.files, gathered_paths[1],
                                   Subset(part.corpus, cat))
                    ELSE part.files
       IN part' = [part EXCEPT
              !.files = files,
              !.rank[r].gathered_paths = gathered_paths,
              !.rank[r].output_files =
                  {o \in @ : o.cat # cat}
                      \cup {[cat |-> cat,
                             path |-> RecordedPath(part.dest, cat)]},
              !.rank[r].idx = @ + 1,
              !.rank[r].pc = IF rk.idx = Len(rk.categories) THEN "done"
                             ELSE "loop"]
    /\ UNCHANGED <<batchVars, prep, few, tok, gen, val, ctx, pre, cnt>>

\* get_icl_task_dataloader: partition_uri = output_files[category] goes to
\* build_icl_dataloader as dataset_uri, and read_dataset has local rank 0
\* get_file it; the path is resolved against the working directory
OpenPartition(r, cat) ==
    /\ part.fn = "partition_dataset_by_category"
    /\ part.rank[r].pc = "done"
    /\ IsLocalRankZero(r)
    /\ \E o \in part.rank[r].output_files :
          /\ o.cat = cat
          /\ LET path == abspath(o.path)
                 found == {f \in part.files : f.path = path}
             IN part' = [part EXCEPT !.opened = @ \cup
                    {[cat |-> cat, path |-> path,
                      rows |-> IF found = {} THEN <<>>
                               ELSE (CHOOSE f \in found : TRUE).rows,
                      exists |-> found # {}]}]
    /\ UNCHANGED <<batchVars, prep, few, tok, gen, val, ctx, pre, cnt>>

\* ------------------------------------------------- few-shot sampling
\* random.Random: a deterministic generator whose whole state is a number;
\* seeding fixes that number, every draw advances it
RngModulus == 16
RngMultiplier == 5
RngIncrement == 3

Random(seed) == seed % RngModulus

RngNext(s) == (RngMultiplier * s + RngIncrement) % RngModulus

\* an index below n drawn from generator state s
RngBelow(s, n) == s % n

\* get_fewshot_sample_idxs(dataset_size, num_fewshot, example_idx, rng):
\* num_fewshot distinct indices other than example_idx, drawn one at a time
\* from rng; returns the indices and the state rng is left in
RECURSIVE SampleIdxs(_, _, _, _, _, _)
SampleIdxs(dataset_size, num_fewshot, example_idx, s, acc, fuel) ==
    IF Len(acc) = num_fewshot \/ fuel = 0
    THEN [idxs |-> acc, rng |-> s]
    ELSE LET s2 == RngNext(s)
             d == RngBelow(s2, dataset_size)
         IN IF d = example_idx \/ Contains(acc, d)
            THEN SampleIdxs(dataset_size, num_fewshot, example_idx, s2, acc,
                            fuel - 1)
            ELSE SampleIdxs(dataset_size, num_fewshot, example_idx, s2,
                            Append(acc, d), fuel - 1)

get_fewshot_sample_idxs(dataset_size, num_fewshot, example_idx, s) ==
    SampleIdxs(dataset_size, num_fewshot, example_idx, s, <<>>, RngModulus)

\* the example_idx _prep_example hands to _generate_few_shot_prompt and on
\* to the sampler
FewshotExampleIdx_First(example_idx) == 0

FewshotExampleIdx(example_idx) == example_idx

\* _generate_few_shot_prompt: the donor rows whose contexts are appended to
\* the preamble, in order, and the state of fewshot_rng afterwards
_generate_few_shot_prompt(dataset_size, num_fewshot, example_idx, s) ==
    IF num_fewshot > 0
    THEN get_fewshot_sample_idxs(dataset_size, num_fewshot,
                                 FewshotExampleIdx(example_idx), s)
    ELSE [idxs |-> <<>>, rng |-> s]

\* a dataset instance during _prepare_dataset: map calls _prep_example on
\* rows 0, 1, ... in order, all with self.fewshot_rng
NewInstance(seed) == [rng |-> Random(seed), next |-> 0, donors |-> <<>>]

PrepExample(inst, n, k) ==
    LET r == _generate_few_shot_prompt(n, k, inst.next, inst.rng)
    IN [rng |-> r.rng, next |-> inst.next + 1,
        donors |-> Append(inst.donors, r.idxs)]

Instances == {"A", "B"}

PrepStep(x) ==
    /\ few.inst[x].next < few.n
    /\ few' = [few EXCEPT !.inst[x] = PrepExample(@, few.n, few.k)]
    /\ UNCHANGED <<batchVars, prep, tok, gen, part, val, ctx, pre, cnt>>

NewFew(n, k, seed) ==
    [n |-> n, k |-> k, seed |-> seed,
     inst |-> [x \in Instances |-> NewInstance(seed)]]

\* ------------------------------------------------- config validation
\* a key the config does not have, an attribute the tokenizer does not have
Absent == -1

TokenIds == 0..MaxTokenId

\* an override flag of the config: not given, false or true
Flags == {"absent", "false", "true"}

\* max_seq_len of the config: not given, an int, a float with an integer
\* value, a float with a fraction
MaxSeqLens == {"absent", "8", "8.0", "8.5"}

DatasetCfgs ==
    [eos_token_id : {Absent} \cup TokenIds,
     bos_token_id : {Absent} \cup TokenIds,
     override_eos_token_id_mismatch_error : Flags,
     override_bos_token_id_mismatch_error : Flags,
     max_seq_len : MaxSeqLens]

Tokenizers ==
    [eos_token_id : {Absent} \cup TokenIds,
     bos_token_id : {Absent} \cup TokenIds]

\* eos_token_id is not None and eos_token_id != tokenizer_eos_token_id
Mismatch_NoneToo(token_id, tokenizer_token_id) ==
    token_id # tokenizer_token_id

Mismatch(token_id, tokenizer_token_id) ==
    token_id # Absent /\ token_id # tokenizer_token_id

\* dataset_cfg.pop(flag, False), taken as a condition
Truthy(flag) == flag = "true"

\* one of the two id checks of _validate_cfg on state v = [cfg, err,
\* warnings]: nothing when the ids agree; otherwise the flag is popped and
\* decides between a warning and ValueError
CheckTokenId(v, key, flag_key, tokenizer) ==
    IF v.err # "" \/ ~Mismatch(v.cfg[key], tokenizer[key])
    THEN v
    ELSE LET popped == [v EXCEPT !.cfg[flag_key] = "absent"]
         IN IF Truthy(v.cfg[flag_key])
            THEN [popped EXCEPT !.warnings = @ \cup {key}]
            ELSE [popped EXCEPT !.err = key]

\* the max_seq_len check of _validate_cfg
CheckMaxSeqLen(v) ==
    IF v.err # "" \/ v.cfg.max_seq_len = "absent"
    THEN v
    ELSE IF v.cfg.max_seq_len = "8.5"
    THEN [v EXCEPT !.err = "max_seq_len"]
    ELSE [v EXCEPT !.cfg.max_seq_len = "8"]

_validate_cfg(dataset_cfg, tokenizer) ==
    LET v0 == [cfg |-> dataset_cfg, err |-> "", warnings |-> {}]
        v1 == CheckTokenId(v0, "eos_token_id",
                           "override_eos_token_id_mismatch_error", tokenizer)
        v2 == CheckTokenId(v1, "bos_token_id",
                           "override_bos_token_id_mismatch_error", tokenizer)
    IN CheckMaxSeqLen(v2)

NotValidated == [pc |-> "new"]

ValidateCfg(dataset_cfg, tokenizer) ==
    /\ val.pc = "new"
    /\ LET v == _validate_cfg(dataset_cfg, tokenizer)
       IN val' = [pc |-> "done", dataset_cfg |-> dataset_cfg,
                  tokenizer |-> tokenizer, cfg |-> v.cfg, err |-> v.err,
                  warnings |-> v.warnings]
    /\ UNCHANGED <<batchVars, prep, few, tok, gen, part, ctx, pre, cnt>>

\* ------------------------------------------------- context strings
\* Strings are sequences of characters.
Whitespace == {" "}

\* the delimiters and flags of a dataset that the context builders read
Prelimiters == {<<>>, <<"Q">>}

ExampleDelimiters == {<<>>, <<"|">>}

ContinuationDelimiters == {<<>>, <<" ">>, <<":">>, <<":", " ">>}

ContextCfgs ==
    [prelimiter : Prelimiters, example_delimiter : ExampleDelimiters,
     continuation_delimiter : ContinuationDelimiters,
     strip_data : BOOLEAN, prefix_space : BOOLEAN]

\* the text before the example: none, or a prompt and few-shot examples
PrecedingTexts == {<<>>, <<"p">>}

\* examples with a context and an answer
Examples == [context : {<<>>, <<"c">>}, answer : {<<"a">>, <<" ", "a">>}]

\* schema examples: context options, the index of the gold one, and the
\* continuation they share
SchemaExamples ==
    [context_options : [1..2 -> {<<"c">>, <<"d">>}], gold : 0..1,
     continuation : {<<"a">>}]

\* str.rstrip()
RECURSIVE rstrip(_)
rstrip(str) ==
    IF Len(str) > 0 /\ str[Len(str)] \in Whitespace
    THEN rstrip(SubSeq(str, 1, Len(str) - 1))
    ELSE str

\* cont.startswith(' ')
StartsWithSpace(str) == Len(str) > 0 /\ str[1] = " "

\* InContextLearningDataset.get_answer_from_example
get_answer_from_example(cfg, example, in_context) ==
    IF cfg.prefix_space /\ ~StartsWithSpace(example.answer) /\ ~in_context
    THEN <<" ">> \o example.answer
    ELSE example.answer

\* if len(preceding_text) > 0: ctxt = f'{self.example_delimiter}{ctxt}'
WithExampleDelimiter_Always(cfg, preceding_text, ctxt) ==
    cfg.example_delimiter \o ctxt

WithExampleDelimiter(cfg, preceding_text, ctxt) ==
    IF Len(preceding_text) > 0 THEN cfg.example_delimiter \o ctxt ELSE ctxt

\* InContextLearningDataset.construct_context
construct_context(cfg, example, preceding_text, add_answer) ==
    LET c1 == cfg.prelimiter \o example.context
        c2 == WithExampleDelimiter(cfg, preceding_text, c1)
        c3 == c2 \o cfg.continuation_delimiter
    IN IF add_answer
       THEN c3 \o get_answer_from_example(cfg, example, add_answer)
       ELSE c3

\* InContextLearningSchemaTaskDataset.construct_context: the gold context
\* option with the continuation, as a few-shot demonstration
SchemaConstructContext(cfg, example, preceding_text) ==
    LET context == example.context_options[example.gold + 1]
        c1 == WithExampleDelimiter(cfg, preceding_text, context)
    IN cfg.prelimiter \o c1 \o cfg.continuation_delimiter
           \o example.continuation

\* InContextLearningSchemaTaskDataset._construct_multiple_contexts: the
\* context options that are scored
_construct_multiple_contexts(cfg, example, preceding_text) ==
    IF Len(preceding_text) > 0
    THEN LET cont_del == IF cfg.strip_data
                         THEN rstrip(cfg.continuation_delimiter)
                         ELSE cfg.continuation_delimiter
         IN [i \in DOMAIN example.context_options |->
                cfg.prelimiter \o cfg.example_delimiter
                    \o example.context_options[i] \o cont_del]
    ELSE [i \in DOMAIN example.context_options |->
             cfg.prelimiter \o example.context_options[i]]

NoContext == [pc |-> "new"]

\* construct_context of the base class on one example
ConstructContext(cfg, example, preceding_text, add_answer) ==
    /\ ctx.pc = "new"
    /\ ctx' = [pc |-> "default", cfg |-> cfg, example |-> example,
               preceding_text |-> preceding_text, add_answer |-> add_answer,
               out |-> construct_context(cfg, example, preceding_text,
                                         add_answer)]
    /\ UNCHANGED <<batchVars, prep, few, tok, gen, part, val, pre, cnt>>

\* the schema variant on one example: its rendering as a demonstration
\* (construct_context, add_answer=True) and its scored context options
SchemaContexts(cfg, example, preceding_text) ==
    /\ ctx.pc = "new"
    /\ ctx' = [pc |-> "schema", cfg |-> cfg, example |-> example,
               preceding_text |-> preceding_text,
               out |-> SchemaConstructContext(cfg, example, preceding_text),
               options |-> _construct_multiple_contexts(cfg, example,
                                                        preceding_text)]
    /\ UNCHANGED <<batchVars, prep, few, tok, gen, part, val, pre, cnt>>

\* ------------------------------------------------- preamble
\* self.tokenizer(prompt_and_fewshot)['input_ids'], special tokens included
Preambles == SeqsUpTo(Tokens, MaxPreamble)

\* InContextLearningDataset._fix_eos_on_preamble
_fix_eos_on_preamble(eos_token_id, input_ids) ==
    IF /\ eos_token_id # Absent
       /\ Len(input_ids) > 1
       /\ input_ids[Len(input_ids)] = eos_token_id
    THEN SubSeq(input_ids, 1, Len(input_ids) - 1)
    ELSE input_ids

NoPreamble == [pc |-> "new"]

\* tokenize_example: preamble = self._fix_eos_on_preamble(preamble)
FixEosOnPreamble(eos_token_id, input_ids) ==
    /\ pre.pc = "new"
    /\ pre' = [pc |-> "fixed", eos_token_id |-> eos_token_id,
               input_ids |-> input_ids,
               preamble |-> _fix_eos_on_preamble(eos_token_id, input_ids)]
    /\ UNCHANGED <<batchVars, prep, few, tok, gen, part, val, ctx, cnt>>

\* ------------------------------------------------- token counts
\* llmfoundry.utils.consts.CROSS_ENTROPY_IGNORE_INDEX
CROSS_ENTROPY_IGNORE_INDEX == -100

\* the keys of a batch that count tokens
_token_count_batch_keys ==
    <<"input_ids", "attention_mask", "labels", "decoder_attention_mask">>

\* what a position of a padded row holds
TokenKinds == {"pad", "prompt", "target"}

\* the rows of width positions: a prompt, then the target, then the padding
PaddedRows(width) ==
    {[j \in 1..width |-> IF j <= a THEN "prompt"
                         ELSE IF j <= b THEN "target" ELSE "pad"] :
        <<a, b>> \in {ab \in (0..width) \X (0..width) : ab[1] <= ab[2]}}

\* A batch of the base collator, rows x width tensors: input_ids is always
\* there, attention_mask and labels may be. A pad position has mask 0 and no
\* label, a prompt position has no label.
BaseCollatorBatch(has, kinds) ==
    [k \in has |->
        [i \in DOMAIN kinds |-> [j \in DOMAIN kinds[i] |->
            CASE k = "input_ids" -> IF kinds[i][j] = "pad" THEN 0 ELSE 1
              [] k = "attention_mask" -> IF kinds[i][j] = "pad" THEN 0 ELSE 1
              [] k = "labels" -> IF kinds[i][j] = "target" THEN 1
                                 ELSE CROSS_ENTROPY_IGNORE_INDEX]]]

RECURSIVE Sum(_)
Sum(sq) == IF sq = <<>> THEN 0 ELSE sq[1] + Sum(Tail(sq))

\* torch.sum / torch.count_nonzero over a 2-d tensor: the number of
\* elements equal to x
RECURSIVE CountEq(_, _)
CountEq(t, x) ==
    IF t = <<>> THEN 0
    ELSE Cardinality({j \in 1..Len(t[1]) : t[1][j] = x}) + CountEq(Tail(t), x)

\* t[..., 1:]
DropFirstColumn(t) == [i \in 1..Len(t) |-> Tail(t[i])]

\* t.numel()
numel(t) == IF t = <<>> THEN 0 ELSE Len(t) * Len(t[1])

CountIsDict(c) == c.kind = "dict"

\* get_tokens_per_batch_func().get_num_tokens_in_batch, decoder_only = True
\* as get_data_spec builds it
get_num_tokens_in_batch(b) ==
    IF "attention_mask" \notin DOMAIN b /\ "input_ids" \notin DOMAIN b
    THEN [kind |-> "ValueError", total |-> 0, loss_generating |-> 0]
    ELSE IF "total_tokens" \in DOMAIN b /\ "loss_generating_tokens" \in DOMAIN b
    THEN [kind |-> "dict", total |-> Sum(b["total_tokens"]),
          loss_generating |-> Sum(b["loss_generating_tokens"])]
    ELSE LET input_ids_tokens ==
                 IF "attention_mask" \in DOMAIN b
                 THEN CountEq(b["attention_mask"], 1)
                 ELSE numel(b["input_ids"])
         IN IF "labels" \in DOMAIN b
            THEN [kind |-> "dict", total |-> input_ids_tokens,
                  loss_generating |->
                      Len(b["labels"]) * (Len(b["labels"][1]) - 1)
                      - CountEq(DropFirstColumn(b["labels"]),
                                CROSS_ENTROPY_IGNORE_INDEX)]
            ELSE [kind |-> "int", total |-> input_ids_tokens,
                  loss_generating |-> 0]

\* batch[key][row:row + 1]
RowSlice_All(t, row) == t

RowSlice(t, row) == SubSeq(t, row, row)

\* row_batch of LossGeneratingTokensCollatorWrapper.__call__
row_batch(b, row) ==
    [k \in {_token_count_batch_keys[i] : i \in 1..Len(_token_count_batch_keys)}
            \cap DOMAIN b |-> RowSlice(b[k], row)]

\* LossGeneratingTokensCollatorWrapper.__call__ after the base collator
LossGeneratingTokensCollatorWrapper(b) ==
    LET num_rows == Len(b["input_ids"])
        num_tokens(row) == get_num_tokens_in_batch(row_batch(b, row + 1))
        output ==
            [k \in {"total_tokens", "loss_generating_tokens"} |->
                [i \in 1..num_rows |->
                    IF CountIsDict(num_tokens(i - 1))
                    THEN IF k = "total_tokens" THEN num_tokens(i - 1).total
                         ELSE num_tokens(i - 1).loss_generating
                    ELSE num_tokens(i - 1).total]]
    IN output @@ b

\* the trainer's row-wise split of a batch into microbatches of n rows
SplitRows(b, n) ==
    [i \in 1..((Len(b["input_ids"]) + n - 1) \div n) |->
        [k \in DOMAIN b |-> Chunks(b[k], n)[i]]]

NoCount == [pc |-> "new"]

\* the dataloader calls the wrapped collator
CallCollator(b) ==
    /\ cnt.pc = "new"
    /\ cnt' = [pc |-> "collated", base |-> b,
               batch |-> LossGeneratingTokensCollatorWrapper(b)]
    /\ UNCHANGED <<batchVars, prep, few, tok, gen, part, val, ctx, pre>>

\* the trainer counts the tokens of the batch, splits it and counts the
\* tokens of every microbatch
CountTokens(n) ==
    /\ cnt.pc = "collated"
    /\ cnt' = [pc |-> "counted", base |-> cnt.base, batch |-> cnt.batch,
               n |-> n,
               whole |-> get_num_tokens_in_batch(cnt.batch),
               microbatches |-> SplitRows(cnt.batch, n),
               parts |-> [i \in 1..Len(SplitRows(cnt.batch, n)) |->
                    get_num_tokens_in_batch(SplitRows(cnt.batch, n)[i])]]
    /\ UNCHANGED <<batchVars, prep, few, tok, gen, part, val, ctx, pre>>


InitFewshot ==
    /\ InitBatch
    /\ prep = NewDataset(MaxCorpus)
    /\ \E n \in 2..MaxCorpus : \E k \in 1..Min(MaxFewshot, n - 1) :
       \E seed \in 0..MaxSeed : few = NewFew(n, k, seed)
    /\ tok = NewTok(ds, MaxWidth)
    /\ gen = NotConstructed
    /\ val = NotValidated
    /\ ctx = NoContext
    /\ pre = NoPreamble
    /\ cnt = NoCount
    /\ part = NewPartition(CHOOSE c \in Corpora : c.cats = <<>>, TRUE,
                           <<"d.jsonl">>)

NextFewshot == \E x \in Instances : PrepStep(x)

SpecFewshot == InitFewshot /\ [][NextFewshot]_vars

InitTokens ==
    /\ InitBatch
    /\ ds.num_choices <= MaxTokChoices
    /\ ~ds.generation_kwargs
    /\ prep = NewDataset(MaxCorpus)
    /\ few = NewFew(MaxCorpus, 1, 0)
    /\ \E w \in 1..MaxWidth : tok = NewTok(ds, w)
    /\ gen = NotConstructed
    /\ val = NotValidated
    /\ ctx = NoContext
    /\ pre = NoPreamble
    /\ cnt = NoCount
    /\ part = NewPartition(CHOOSE c \in Corpora : c.cats = <<>>, TRUE,
                           <<"d.jsonl">>)

NextTokens ==
    \/ \E contexts \in [1..NumContexts(ds) -> Contexts] :
       \E answers \in [1..NumAnswers(ds) -> Continuations] :
           TokenizeExample(contexts, answers)
    \/ CollateTokens

SpecTokens == InitTokens /\ [][NextTokens]_vars

Init ==
    /\ InitBatch
    /\ prep = NewDataset(MaxCorpus)
    /\ few = NewFew(MaxCorpus, 1, 0)
    /\ tok = NewTok(ds, MaxWidth)
    /\ gen = NotConstructed
    /\ val = NotValidated
    /\ ctx = NoContext
    /\ pre = NoPreamble
    /\ cnt = NoCount
    /\ part = NewPartition(CHOOSE c \in Corpora : c.cats = <<>>, TRUE,
                           <<"d.jsonl">>)

NextConstruct ==
    \E max_seq_len \in 1..MaxSeqLenArg :
    \E padding_size \in {None} \cup 1..MaxPaddingArg :
    \E longest \in 0..MaxAnswer :
    \E cot_delimiter \in BOOLEAN :
        ConstructGeneration(max_seq_len, padding_size, longest, cot_delimiter)

SpecConstruct == Init /\ [][NextConstruct]_vars

InitPartition ==
    /\ InitBatch
    /\ ds.variant = "lm"
    /\ prep = NewDataset(MaxCorpus)
    /\ few = NewFew(MaxCorpus, 1, 0)
    /\ tok = NewTok(ds, MaxWidth)
    /\ gen = NotConstructed
    /\ val = NotValidated
    /\ ctx = NoContext
    /\ pre = NoPreamble
    /\ cnt = NoCount
    /\ \E corpus \in Corpora : \E hf \in BOOLEAN :
       \E dest \in DestinationPaths : part = NewPartition(corpus, hf, dest)

NextPartition ==
    \E r \in Ranks :
        \/ LoadHF(r)
        \/ GetFile(r)
        \/ GetFileDone(r)
        \/ WaitDownload(r)
        \/ LoadJson(r)
        \/ CheckCategory(r)
        \/ AllGatherEnter(r)
        \/ AllGatherLeave(r)

SpecPartition == InitPartition /\ [][NextPartition]_vars

InitDownload ==
    /\ InitBatch
    /\ ds.variant = "lm"
    /\ prep = NewDataset(MaxCorpus)
    /\ few = NewFew(MaxCorpus, 1, 0)
    /\ tok = NewTok(ds, MaxWidth)
    /\ gen = NotConstructed
    /\ val = NotValidated
    /\ ctx = NoContext
    /\ pre = NoPreamble
    /\ cnt = NoCount
    /\ \E corpus \in Corpora : \E hf \in BOOLEAN :
       \E dest \in DestinationPaths :
           part \in {NewPartition(corpus, hf, dest),
                     NewRead(corpus, hf, dest)}

NextDownload ==
    \/ NextPartition
    \/ \E r \in Ranks : ReadReturn(r)

SpecDownload == InitDownload /\ [][NextDownload]_vars

NextAgree ==
    \/ NextPartition
    \/ \E r \in Ranks : \E i \in 1..Len(CategoryOrder) :
           OpenPartition(r, CategoryOrder[i])

SpecAgree == InitPartition /\ [][NextAgree]_vars

\* one dataset, every machine in its initial state
InitOne == Init /\ ds.variant = "lm"

NextValidate ==
    \E dataset_cfg \in DatasetCfgs : \E tokenizer \in Tokenizers :
        ValidateCfg(dataset_cfg, tokenizer)

SpecValidate == InitOne /\ [][NextValidate]_vars

NextContext ==
    \E cfg \in ContextCfgs : \E preceding_text \in PrecedingTexts :
        \/ \E example \in Examples : \E add_answer \in BOOLEAN :
               ConstructContext(cfg, example, preceding_text, add_answer)
        \/ \E example \in SchemaExamples :
               SchemaContexts(cfg, example, preceding_text)

SpecContext == InitOne /\ [][NextContext]_vars

NextPreamble ==
    \E eos_token_id \in {Absent} \cup Tokens : \E input_ids \in Preambles :
        FixEosOnPreamble(eos_token_id, input_ids)

SpecPreamble == InitOne /\ [][NextPreamble]_vars

NextCount ==
    \/ \E rows \in 1..MaxCountRows, width \in 1..MaxCountWidth :
          \E opt \in SUBSET {"attention_mask", "labels"} :
             \E kinds \in [1..rows -> PaddedRows(width)] :
                CallCollator(BaseCollatorBatch({"input_ids"} \cup opt, kinds))
    \/ \E n \in 1..MaxCountRows : CountTokens(n)

SpecCount == InitOne /\ [][NextCount]_vars

InitPrepare ==
    /\ InitBatch
    /\ few = NewFew(MaxCorpus, 1, 0)
    /\ tok = NewTok(ds, MaxWidth)
    /\ gen = NotConstructed
    /\ val = NotValidated
    /\ ctx = NoContext
    /\ pre = NoPreamble
    /\ cnt = NoCount
    /\ part = NewPartition(CHOOSE c \in Corpora : c.cats = <<>>, TRUE,
                           <<"d.jsonl">>)
    /\ \E n \in 1..MaxCorpus : prep = NewDataset(n)

NextPrepare ==
    \/ \E index \in 0..(MaxCorpus - 1) : GetItem(index)
    \/ LenCall

SpecPrepare == InitPrepare /\ [][NextPrepare]_vars


\* the generation_kwargs dict that a batch holds
KwargsOf(b) ==
    IF HasKey(b, "generation_kwargs") THEN b.val["generation_kwargs"].v[1]
    ELSE BatchKwargs

\* the dataloader hands Q consecutive tokenized records to collate_fn.
\* collate_fn of the dataset's variant is called on Q records. Whatever it
\* appends or assigns goes to the dict it accumulates in, and the entries
\* it sets in generation_kwargs to the dict of that name it holds.
Collate(start, Q) ==
    /\ data' = [i \in 1..Q |-> start + i]
    /\ batch' = collate_fn(ds, data')
    /\ pc' = "collated"
    /\ arg' = NoArg
    /\ result' = Ok(<<>>)
    /\ heap' = [heap EXCEPT ![KwargsOf(batch')] =
                    CollatedKwargsKeys(ds, heap[BaseKwargs])]
    /\ template' = IF batch'.obj = template.obj THEN batch' ELSE template
    /\ touched' = 0
    /\ UNCHANGED <<ds, ebs>>
    /\ UNCHANGED otherVars

\* the evaluation loop splits the collated batch
SplitBatch(m, extra) ==
    /\ pc = "collated"
    /\ arg' = [m |-> m, extra |-> extra]
    /\ result' = split_batch(ds, WithExtra(batch, extra), m)
    /\ pc' = "split"
    /\ UNCHANGED <<ds, data, batch, ebs, heap, touched, template>>
    /\ UNCHANGED otherVars

\* build_icl_dataloader asks for the effective batch size; the result is
\* fed back once more
EffectiveBatchSize(n) ==
    /\ ebs' = [n |-> n, out |-> get_effective_batch_size(ds, n),
               again |-> get_effective_batch_size(ds,
                            get_effective_batch_size(ds, n))]
    /\ UNCHANGED <<ds, pc, data, batch, arg, result, heap, touched, template>>
    /\ UNCHANGED otherVars

Next ==
    \/ \E start \in 0..MaxStart, Q \in 1..MaxQ : Collate(start, Q)
    \/ \E m \in MicrobatchSizes, extra \in ExtraKinds : SplitBatch(m, extra)

Spec == Init /\ [][Next]_vars

\* the consumer of microbatch i adds a key to the generation_kwargs dict it
\* was handed
ConsumerKey == "consumer_key"

MutateMicrobatch(i) ==
    /\ pc = "split"
    /\ result.err = ""
    /\ touched = 0
    /\ i \in 1..Len(result.chunks)
    /\ "generation_kwargs" \in DOMAIN result.chunks[i]
    /\ heap' = [heap EXCEPT ![result.chunks[i]["generation_kwargs"].v[1]] =
                    @ \cup {ConsumerKey}]
    /\ touched' = i
    /\ UNCHANGED <<ds, pc, data, batch, arg, result, ebs, template>>
    /\ UNCHANGED otherVars

NextShare ==
    \/ \E start \in 0..MaxStart, Q \in 1..MaxQ : Collate(start, Q)
    \/ \E m \in MicrobatchSizes, extra \in ExtraKinds : SplitBatch(m, extra)
    \/ \E i \in 1..MaxQ : MutateMicrobatch(i)

SpecShare == Init /\ [][NextShare]_vars

NextBatchSize == \E n \in 1..MaxBatchSize : EffectiveBatchSize(n)

SpecBatchSize == Init /\ [][NextBatchSize]_vars

\* ------------------------------------------------------------- properties
Q == Len(data)

N == ds.num_choices

Returned == pc = "split" /\ result.err = ""

Microbatches == result.chunks

CeilDiv(a, b) == (a + b - 1) \div b

RowKeys == {"input_ids", "labels", "attention_mask", "continuation_indices"}

QuestionKeys == {"gold_indices", "choice_groupings"}

NonStaticKeys ==
    {batch.keys[i] : i \in {j \in 1..Len(batch.keys) :
                              ~Contains(static_keys(ds), batch.keys[j])}}

StaticKeys ==
    {batch.keys[i] : i \in {j \in 1..Len(batch.keys) :
                              Contains(static_keys(ds), batch.keys[j])}}

\* the corpus questions that have a row among rows
QuestionsIn(rows) == {rows[i][1] : i \in 1..Len(rows)}

RowsOf(rows, q) == {i \in 1..Len(rows) : rows[i][1] = q}

\* the number of rows of key k in the microbatches 1..i
RECURSIVE RowsUpTo(_, _, _)
RowsUpTo(mbs, k, i) ==
    IF i = 0 THEN 0 ELSE Len(mbs[i][k].v) + RowsUpTo(mbs, k, i - 1)

\* the values of key k of the microbatches i.., concatenated in order
RECURSIVE ConcatFrom(_, _, _)
ConcatFrom(mbs, k, i) ==
    IF i > Len(mbs) THEN <<>> ELSE mbs[i][k].v \o ConcatFrom(mbs, k, i + 1)

\* C1: in the multiple-choice and schema variants no microbatch boundary
\* falls inside a choice_groupings range of the batch, and every per-row key
\* of every microbatch holds whole num_choices-row question groups.
C1_WholeGroups ==
    (Returned /\ IsMC(ds)) =>
        \A i \in 1..Len(Microbatches) : \A k \in RowKeys :
            /\ k \in DOMAIN Microbatches[i]
            /\ Len(Microbatches[i][k].v) % N = 0
            /\ \A q \in QuestionsIn(Microbatches[i][k].v) :
                   Cardinality(RowsOf(Microbatches[i][k].v, q)) = N
            /\ \A g \in 1..Len(batch.val["choice_groupings"].v) :
                   LET grp == batch.val["choice_groupings"].v[g]
                       at == RowsUpTo(Microbatches, k, i)
                   IN ~(grp[1] < at /\ at < grp[2])

C1_Witness ==
    /\ Returned /\ IsMC(ds) /\ N >= 2 /\ Q >= 3
    /\ Len(Microbatches) >= 2
    /\ Len(Microbatches[1]["input_ids"].v) = 2 * N

C4_CollateShape ==
    (pc # "constructed" /\ IsMC(ds)) =>
        LET cg == batch.val["choice_groupings"].v
            rows == batch.val["input_ids"].v
        IN /\ Len(rows) = N * Q
           /\ Len(cg) = Q
           /\ Len(batch.val["gold_indices"].v) = Q
           /\ cg[1][1] = 0
           /\ cg[Q][2] = N * Q
           /\ \A i \in 1..Q :
                 /\ cg[i][2] - cg[i][1] = N
                 /\ i > 1 => cg[i][1] = cg[i - 1][2]
                 /\ \A r \in (cg[i][1] + 1)..cg[i][2] : rows[r][1] = data[i]
                 /\ batch.val["gold_indices"].v[i] = Gold(ds, data[i])

C4_Witness ==
    /\ pc = "collated" /\ IsMC(ds) /\ N = 3 /\ Q = 2
    /\ batch.val["choice_groupings"].v = <<<<0, 3>>, <<3, 6>>>>

C7_Idempotent == (ebs.n > 0 /\ IsMC(ds)) => ebs.again = ebs.out

\* C7 amended: re-application never gives a larger value, and it gives the
\* same value exactly when num_choices = 1 or n < 2 * num_choices.
C7_IdempotentBelowTwoGroups ==
    (ebs.n > 0 /\ IsMC(ds)) =>
        /\ ebs.again <= ebs.out
        /\ (ebs.again = ebs.out) <=> (N = 1 \/ ebs.n < 2 * N)

C7_Witness ==
    /\ IsMC(ds) /\ N = 2 /\ ebs.n = 3 /\ ebs.out = 1 /\ ebs.again = 1

\* C8: every variant rejects a floating-point microbatch_size with an error:
\* no microbatch is returned and the batch is still the collated one.
C8_FloatRejected ==
    (pc = "split" /\ arg.m.float) =>
        /\ result.err = "ValueError"
        /\ result.msg = IF ds.variant = "lm" THEN ComposerFloatMsg
                        ELSE SplitBatchFloatMsg
        /\ result.chunks = <<>>
        /\ batch = collate_fn(ds, data)

C8_Witness ==
    /\ pc = "split" /\ arg.m.float /\ arg.m.n = 2 /\ ds.variant = "mc"
    /\ arg.extra = "none" /\ result.err = "ValueError"

\* C9: split_batch of the multiple-choice, schema and generation variants,
\* given an integer microbatch_size and a batch with a key outside the
\* variant's key classifications, raises a ValueError that names that key and
\* returns no microbatch.
C9_UnexpectedKey ==
    (pc = "split" /\ ds.variant # "lm" /\ ~arg.m.float /\ arg.extra # "none") =>
        /\ result.err = "ValueError"
        /\ result.key = "extra"
        /\ result.chunks = <<>>

C9_Witness ==
    /\ pc = "split" /\ ds.variant = "mc" /\ ~arg.m.float /\ arg.extra = "list"
    /\ result.err = "ValueError" /\ result.key = "extra"
    /\ result.msg = "Unexpected key in list splitting"

\* C10: in the multiple-choice, schema and generation variants every static
\* key of the batch is in every microbatch with the value it has in the
\* batch, and there is one microbatch per chunk of input_ids.
C10_StaticBroadcast ==
    (Returned /\ ds.variant # "lm") =>
        /\ \A i \in 1..Len(Microbatches) : \A k \in StaticKeys :
              /\ k \in DOMAIN Microbatches[i]
              /\ Microbatches[i][k] = batch.val[k]
        /\ Len(Microbatches) =
              CeilDiv(Len(batch.val["input_ids"].v), arg.m.n * N)
        /\ ConcatFrom(Microbatches, "input_ids", 1) = batch.val["input_ids"].v

C10_Witness ==
    /\ Returned /\ ds.variant = "gen" /\ Len(Microbatches) = 3
    /\ Microbatches[3]["generation_kwargs"] = batch.val["generation_kwargs"]
    /\ Microbatches[3]["mode"].v = <<"generate">>

\* C11 as stated: a change made to the generation_kwargs of one microbatch is
\* seen neither through another microbatch of the same split nor through the
\* batch that was split.
C11_NoSharedState ==
    touched # 0 =>
        /\ \A j \in 1..Len(Microbatches) :
              j # touched =>
                 ConsumerKey \notin heap[Microbatches[j]["generation_kwargs"].v[1]]
        /\ ConsumerKey \notin heap[batch.val["generation_kwargs"].v[1]]

\* C12: preparation is a one-time lazy pass: neither construction nor
\* __len__ runs _prepare_dataset, the first __getitem__ runs it once, and it
\* is never run again; the records come from that one pass and the length
\* stays the length of the corpus.
C12_PreparedOnce ==
    /\ prep.gets = 0 => (~prep.prepared /\ prep.runs = 0 /\ prep.pass = 0)
    /\ prep.gets > 0 => (prep.prepared /\ prep.runs = 1 /\ prep.pass = 1)
    /\ prep.len = prep.corpus
    /\ (Len(prep.returned) > 0 /\ prep.returned[1] = "len") =>
           prep.returned[2] = prep.corpus
    /\ (Len(prep.returned) > 0 /\ prep.returned[1] = "item") =>
           prep.returned[3] = 1

C12_Witness ==
    /\ prep.gets = 2 /\ prep.lens = 1 /\ prep.runs = 1 /\ prep.prepared
    /\ ds.variant = "mc" /\ prep.returned = <<"item", 1, 1>>

\* the donor sequence instance x selected for example i (i counted from 0)
Donors(x, i) == few.inst[x].donors[i + 1]

IsSet(sq) == \A a, b \in 1..Len(sq) : a # b => sq[a] # sq[b]

TokRows == IF tok.pc \in {"record", "batch"} THEN tok.rec.rows ELSE <<>>

\* C14: every padded token sequence of a tokenized record, one per choice
\* in the multiple-choice and schema variants, has exactly padding_size
\* tokens, whichever the padding side and whether or not the context was
\* trimmed.
C14_PaddedLength ==
    \A i \in 1..Len(TokRows) : Len(TokRows[i].input) = tok.cfg.padding_size

C14_Witness ==
    /\ ds.variant = "gen" /\ tok.pc = "record"
    /\ Len(TokRows[1].trimmed) < Len(TokRows[1].context)
    /\ Len(TokRows[1].input) = tok.cfg.padding_size

\* the tokens of row sq at the half-open span <<start, end>>
Slice(sq, span) == SubSeq(sq, span[1] + 1, span[2])

\* C15 as stated: with tokenized labels, every span satisfies
\* 0 <= start < end <= padding_size and the padded sequence holds the
\* continuation tokens at the span.
C15_Span ==
    \A i \in 1..Len(TokRows) : TokRows[i].labels =>
        LET span == TokRows[i].continuation_indices
        IN /\ 0 <= span[1] /\ span[1] < span[2]
           /\ span[2] <= tok.cfg.padding_size
           /\ Slice(TokRows[i].input, span) = TokRows[i].answer

\* C15, amended: with tokenized labels, every span satisfies
\* 0 <= start <= end <= padding_size, with start < end exactly when the
\* continuation has at least one token, and the padded sequence holds the
\* continuation tokens at the span.
C15_SpanOrEmpty ==
    \A i \in 1..Len(TokRows) : TokRows[i].labels =>
        LET span == TokRows[i].continuation_indices
        IN /\ 0 <= span[1] /\ span[1] <= span[2]
           /\ span[2] <= tok.cfg.padding_size
           /\ (span[1] < span[2]) <=> (Len(TokRows[i].answer) > 0)
           /\ Slice(TokRows[i].input, span) = TokRows[i].answer

C15_Witness ==
    /\ tok.pc = "record" /\ Len(TokRows) = 2
    /\ TokRows[1].labels /\ TokRows[1].answer = <<>>
    /\ TokRows[1].continuation_indices[1] = TokRows[1].continuation_indices[2]
    /\ Len(TokRows[2].answer) = 1
    /\ Len(TokRows[2].trimmed) < Len(TokRows[2].context)
    /\ TokRows[2].continuation_indices[1] = 1

\* the continuation tokenize_example hands to trim_context for a row
TrimContinuation(row) == IF row.labels THEN row.answer ELSE <<>>

\* C16: trim_context leaves a context alone when context and continuation
\* fit the width, and otherwise keeps the longest suffix of the context that
\* fits with the continuation; when a continuation alone is longer than the
\* width it is an error and there is no record.
C16_TrimContext ==
    /\ \A i \in 1..Len(TokRows) :
          LET row == TokRows[i]
              room == tok.cfg.padding_size - Len(TrimContinuation(row))
          IN /\ room >= 0
             /\ Len(row.context) <= room => row.trimmed = row.context
             /\ Len(row.context) > room =>
                   row.trimmed = Suffix(row.context, room)
    /\ tok.pc \in {"error", "record", "batch"} =>
          ((tok.pc = "error") <=>
              (/\ tok.cfg.tokenize_labels
               /\ \E i \in 1..Len(tok.example.answers) :
                     Len(tok.example.answers[i]) > tok.cfg.padding_size))
    /\ tok.pc = "error" => tok.rec.rows = <<>>

C16_Witness ==
    /\ tok.pc = "record" /\ tok.cfg.padding_size = 2
    /\ TokRows[1].context = <<0, 1>> /\ TokRows[1].answer = <<1>>
    /\ TokRows[1].trimmed = <<1>>

\* C17: in a collated batch attention_mask has the shape of input_ids and
\* is true exactly at the positions whose token is not pad_tok_id.
C17_AttentionMask ==
    tok.pc = "batch" =>
        /\ Len(tok.batch.input_ids) = Len(tok.rec.rows)
        /\ Len(tok.batch.attention_mask) = Len(tok.batch.input_ids)
        /\ \A r \in 1..Len(tok.batch.input_ids) :
              /\ Len(tok.batch.attention_mask[r]) =
                     Len(tok.batch.input_ids[r])
              /\ \A c \in 1..Len(tok.batch.input_ids[r]) :
                    tok.batch.attention_mask[r][c] <=>
                        (tok.batch.input_ids[r][c] # tok.cfg.pad_tok_id)

C17_Witness ==
    /\ tok.pc = "batch" /\ ds.variant = "schema"
    /\ tok.batch.input_ids = <<(<<1, 0>>), (<<1, 1>>)>>
    /\ tok.batch.attention_mask = <<(<<TRUE, FALSE>>), (<<TRUE, TRUE>>)>>

\* C18: a constructed generation dataset has
\* padding_size = max_seq_len - max_answer_length >= 0 whatever padding_size
\* was passed; max_seq_len is raised to max_answer_length when it was
\* configured smaller (padding_size is then 0) and is otherwise as configured.
C18_PaddingSize ==
    gen.pc = "constructed" =>
        /\ gen.padding_size = gen.max_seq_len - gen.max_answer_length
        /\ gen.padding_size >= 0
        /\ gen.args.max_seq_len < gen.max_answer_length =>
              (gen.max_seq_len = gen.max_answer_length /\ gen.padding_size = 0)
        /\ gen.args.max_seq_len >= gen.max_answer_length =>
              gen.max_seq_len = gen.args.max_seq_len

C18_Witness ==
    /\ gen.pc = "constructed" /\ gen.args.padding_size = 2
    /\ gen.args.max_seq_len = 12 /\ gen.args.cot_delimiter
    /\ gen.max_answer_length = 13 /\ gen.max_seq_len = 13
    /\ gen.padding_size = 0

\* the categories that occur in the corpus
CorpusCategories == {part.corpus.cats[i] : i \in 1..Len(part.corpus.cats)}

\* the path of the file written for category cat
WrittenPath(cat) == abspath(cat_dest(part.dest, cat))

RECURSIVE SumLen(_)
SumLen(fs) ==
    IF fs = {} THEN 0
    ELSE LET f == CHOOSE f \in fs : TRUE
         IN Len(f.rows) + SumLen(fs \ {f})

\* C19: for a corpus with a category field, the files are written one per
\* category in sorted order, each holds exactly the rows of its category in
\* corpus order, and no row is in two files; once local rank 0 has returned
\* there is exactly one file per distinct category and the row counts add up
\* to the size of the corpus.
C19_Partition ==
    "category" \in part.corpus.features =>
        /\ \A f \in part.files : \E cat \in CorpusCategories :
              /\ f.path = WrittenPath(cat)
              /\ {f.rows[i] : i \in 1..Len(f.rows)} =
                     {i \in 1..Len(part.corpus.cats) : part.corpus.cats[i] = cat}
              /\ \A i, j \in 1..Len(f.rows) : i < j => f.rows[i] < f.rows[j]
        /\ \A f, g \in part.files : f # g =>
              /\ f.path # g.path
              /\ \A i \in 1..Len(f.rows) : \A j \in 1..Len(g.rows) :
                    f.rows[i] # g.rows[j]
        /\ \A k \in 1..Len(SortedCategories(part.corpus)) :
              (\E f \in part.files :
                   f.path = WrittenPath(SortedCategories(part.corpus)[k]))
              => \A j \in 1..k : \E g \in part.files :
                   g.path = WrittenPath(SortedCategories(part.corpus)[j])
        /\ part.rank[0].pc = "done" =>
              /\ Cardinality(part.files) = Cardinality(CorpusCategories)
              /\ SumLen(part.files) = Len(part.corpus.cats)
              /\ \A r \in Ranks : part.rank[r].pc = "done" =>
                    {o.cat : o \in part.rank[r].output_files} =
                        CorpusCategories

C19_Witness ==
    /\ part.corpus.cats = <<"B", "A", "B">>
    /\ \A r \in Ranks : part.rank[r].pc = "done"
    /\ part.files = {[path |-> <<"", "tmp", "A_d.jsonl">>, rows |-> <<2>>],
                     [path |-> <<"", "tmp", "B_d.jsonl">>, rows |-> <<1, 3>>]}

\* C20: for a corpus without a category field every rank that gets to the
\* check raises an error listing the fields of the corpus, and no partition
\* file is written and no all-gather entered, before or after.
C20_MissingCategory ==
    "category" \notin part.corpus.features =>
        /\ part.files = {}
        /\ \A round \in DOMAIN part.gather : \A r \in Ranks :
              part.gather[round][r] = NoPath
        /\ \A r \in Ranks :
              /\ part.rank[r].pc \in {"start", "downloading", "downloaded",
                                       "loaded", "error"}
              /\ part.rank[r].pc = "error" =>
                    part.rank[r].err = part.corpus.features
              /\ part.rank[r].output_files = {}

C20_Witness ==
    /\ "category" \notin part.corpus.features
    /\ \A r \in Ranks : part.rank[r].pc = "error"
                        /\ part.rank[r].err = {"context", "answer"}
    /\ part.get_file = {0}

\* C21: for a corpus that is not on the hub, in read_dataset and in
\* partition_dataset_by_category alike, only local rank 0 calls get_file,
\* and a rank loads the destination file only after that call has returned.
C21_DownloadThenLoad ==
    ~part.hf =>
        /\ part.get_file \subseteq {0}
        /\ part.loading # {} => (part.downloaded /\ part.get_file = {0})
        /\ \A r \in Ranks :
              part.rank[r].pc \notin {"start", "downloading", "downloaded"}
                  => (r \in part.loading /\ part.downloaded)

C21_Witness ==
    /\ part.fn = "read_dataset" /\ ~part.hf
    /\ part.get_file = {0} /\ part.downloaded
    /\ part.loading = {1}
    /\ part.rank[0].pc = "downloaded" /\ part.rank[1].pc = "loaded"

\* the rows of the corpus whose category is cat
RowsOfCategory(cat) ==
    {i \in 1..Len(part.corpus.cats) : part.corpus.cats[i] = cat}

IsFileOf(f, cat) == {f.rows[i] : i \in 1..Len(f.rows)} = RowsOfCategory(cat)

IdDiffers(key) ==
    /\ val.dataset_cfg[key] # Absent
    /\ val.dataset_cfg[key] # val.tokenizer[key]

\* C23: _validate_cfg raises for eos_token_id exactly when the config gives
\* an id that differs from the tokenizer's and the override flag is not
\* true; with the flag true it warns and goes on to the bos_token_id check,
\* which behaves the same way; an absent or equal id neither raises nor
\* warns.
C23_TokenIdMismatch ==
    val.pc = "done" =>
        LET eos_flag == val.dataset_cfg.override_eos_token_id_mismatch_error
            bos_flag == val.dataset_cfg.override_bos_token_id_mismatch_error
            eos_raises == IdDiffers("eos_token_id") /\ eos_flag # "true"
            bos_raises == IdDiffers("bos_token_id") /\ bos_flag # "true"
        IN /\ (val.err = "eos_token_id") <=> eos_raises
           /\ (val.err = "bos_token_id") <=> (~eos_raises /\ bos_raises)
           /\ ("eos_token_id" \in val.warnings) <=>
                  (IdDiffers("eos_token_id") /\ eos_flag = "true")
           /\ ("bos_token_id" \in val.warnings) <=>
                  (~eos_raises /\ IdDiffers("bos_token_id")
                   /\ bos_flag = "true")

C23_Witness ==
    /\ val.pc = "done"
    /\ val.dataset_cfg.eos_token_id = 1 /\ val.tokenizer.eos_token_id = 0
    /\ val.dataset_cfg.override_eos_token_id_mismatch_error = "true"
    /\ val.dataset_cfg.bos_token_id = 0 /\ val.tokenizer.bos_token_id = Absent
    /\ val.dataset_cfg.override_bos_token_id_mismatch_error = "false"
    /\ val.warnings = {"eos_token_id"} /\ val.err = "bos_token_id"

\* C24: the default construct_context returns example_delimiter when there
\* is preceding text, then prelimiter, the context field,
\* continuation_delimiter, and the answer of get_answer_from_example when
\* add_answer is set.
C24_ConstructContext ==
    ctx.pc = "default" =>
        ctx.out =
            (IF ctx.preceding_text # <<>> THEN ctx.cfg.example_delimiter
             ELSE <<>>)
            \o ctx.cfg.prelimiter \o ctx.example.context
            \o ctx.cfg.continuation_delimiter
            \o (IF ctx.add_answer THEN ctx.example.answer ELSE <<>>)

C24_Witness ==
    /\ ctx.pc = "default" /\ ctx.add_answer /\ ctx.cfg.prefix_space
    /\ ctx.preceding_text = <<"p">>
    /\ ctx.out = <<"|", "Q", "c", ":", " ", "a">>

\* C29 as stated: in the schema variant the scored gold context followed by
\* the continuation is the string construct_context renders for the
\* example as a demonstration, with or without preceding text.
C29_SameRendering ==
    ctx.pc = "schema" =>
        ctx.options[ctx.example.gold + 1] \o ctx.example.continuation
            = ctx.out

\* C25 as stated: with a non-null eos_token_id, a non-empty preamble whose
\* last token is the EOS token comes back without that token; every other
\* preamble comes back unchanged.
C25_FixEos ==
    pre.pc = "fixed" =>
        IF /\ pre.eos_token_id # Absent
           /\ Len(pre.input_ids) > 0
           /\ pre.input_ids[Len(pre.input_ids)] = pre.eos_token_id
        THEN pre.preamble = SubSeq(pre.input_ids, 1, Len(pre.input_ids) - 1)
        ELSE pre.preamble = pre.input_ids

\* the position in the collated batch of the question q
BatchIndexOf(q) == CHOOSE i \in 1..Len(data) : data[i] = q

C27_GroupingsInMicrobatch ==
    (Returned /\ IsMC(ds)) =>
        \A i \in 1..Len(Microbatches) :
            LET mb == Microbatches[i]
                cg == mb["choice_groupings"].v
            IN \A j \in 1..Len(cg) :
                  /\ 0 <= cg[j][1]
                  /\ cg[j][1] < cg[j][2]
                  /\ cg[j][2] <= Len(mb["input_ids"].v)

\* the rows of the records i.. of recs, in order
RECURSIVE RowsOfRecords(_, _, _)
RowsOfRecords(d, recs, i) ==
    IF i > Len(recs) THEN <<>>
    ELSE RecordRows(d, recs[i]) \o RowsOfRecords(d, recs, i + 1)

\* C28: after any sequence of collate_fn calls the dataset's base_batch is
\* as __init__ left it (its accumulator lists empty, its generation_kwargs
\* without a stopping_criteria entry), and the batch of the last call holds
\* exactly the rows of the records passed to it, so it is a function of
\* those records alone.
C28_BaseBatchUnchanged ==
    /\ template = base_batch(ds)
    /\ \A k \in DOMAIN template.val :
          template.val[k].kind = "list" => template.val[k].v = <<>>
    /\ heap[BaseKwargs] = BaseKwargsKeys(ds)
    /\ "stopping_criteria" \notin heap[BaseKwargs]
    /\ pc # "constructed" =>
          /\ batch.val["input_ids"].v = RowsOfRecords(ds, data, 1)
          /\ batch.val["labels"].v = RowsOfRecords(ds, data, 1)
          /\ batch.val["attention_mask"].v = RowsOfRecords(ds, data, 1)
          /\ IsMC(ds) =>
                /\ batch.val["gold_indices"].v =
                       [i \in 1..Len(data) |-> Gold(ds, data[i])]
                /\ Len(batch.val["choice_groupings"].v) = Len(data)
          /\ HasKey(batch, "generation_kwargs") =>
                /\ KwargsOf(batch) # BaseKwargs
                /\ heap[KwargsOf(batch)] =
                       CollatedKwargsKeys(ds, BaseKwargsKeys(ds))

C28_Witness ==
    /\ pc = "split" /\ ds.variant = "gen" /\ data = <<2, 3>>
    /\ batch.val["input_ids"].v = <<<<2, 0>>, <<3, 0>>>>
    /\ "stopping_criteria" \in heap[KwargsOf(batch)]
    /\ template.val["input_ids"].v = <<>>

\* the token counts of row i of a base batch, read off that row alone
RowTotal(b, i) ==
    IF "attention_mask" \in DOMAIN b
    THEN Cardinality({j \in 1..Len(b["attention_mask"][i]) :
                        b["attention_mask"][i][j] = 1})
    ELSE Len(b["input_ids"][i])

RowLossGenerating(b, i) ==
    IF "labels" \in DOMAIN b
    THEN Cardinality({j \in 2..Len(b["labels"][i]) :
                        b["labels"][i][j] # CROSS_ENTROPY_IGNORE_INDEX})
    ELSE RowTotal(b, i)

\* C30: the wrapped collator adds total_tokens and loss_generating_tokens
\* with one entry per input_ids row, each the count of that row alone;
\* get_num_tokens_in_batch of the batch and of every microbatch of a row-wise
\* split is the pair of sums of the two lists, and the microbatches' totals
\* add up to the batch's.
C30_TokenCounts ==
    /\ cnt.pc # "new" =>
          LET rows == Len(cnt.batch["input_ids"])
          IN /\ DOMAIN cnt.batch["total_tokens"] = 1..rows
             /\ DOMAIN cnt.batch["loss_generating_tokens"] = 1..rows
             /\ \A i \in 1..rows :
                   /\ cnt.batch["total_tokens"][i] = RowTotal(cnt.base, i)
                   /\ cnt.batch["loss_generating_tokens"][i] =
                          RowLossGenerating(cnt.base, i)
             /\ \A k \in DOMAIN cnt.base : cnt.batch[k] = cnt.base[k]
    /\ cnt.pc = "counted" =>
          /\ cnt.whole.kind = "dict"
          /\ cnt.whole.total = Sum(cnt.batch["total_tokens"])
          /\ cnt.whole.loss_generating =
                 Sum(cnt.batch["loss_generating_tokens"])
          /\ \A i \in 1..Len(cnt.parts) :
                /\ cnt.parts[i].kind = "dict"
                /\ cnt.parts[i].total =
                       Sum(cnt.microbatches[i]["total_tokens"])
                /\ cnt.parts[i].loss_generating =
                       Sum(cnt.microbatches[i]["loss_generating_tokens"])
          /\ Sum([i \in 1..Len(cnt.parts) |-> cnt.parts[i].total])
                 = cnt.whole.total
          /\ Sum([i \in 1..Len(cnt.parts) |-> cnt.parts[i].loss_generating])
                 = cnt.whole.loss_generating

C30_Witness ==
    /\ cnt.pc = "counted" /\ cnt.n = 1 /\ Len(cnt.parts) = 2
    /\ {"attention_mask", "labels"} \subseteq DOMAIN cnt.base
    /\ cnt.base["attention_mask"] = <<<<1, 1>>, <<1, 0>>>>
    /\ cnt.base["labels"] = <<<<1, 1>>, <<1, CROSS_ENTROPY_IGNORE_INDEX>>>>
    /\ cnt.batch["total_tokens"] = <<2, 1>>
    /\ cnt.batch["loss_generating_tokens"] = <<1, 0>>
    /\ cnt.whole.total = 3 /\ cnt.whole.loss_generating = 1
    /\ cnt.parts[2].total = 1

====
